---- MODULE Spec2Model ----
(***************************************************************************)
(* bravepython: the search() generator and _unwrap_brave_redirect of       *)
(* src/__init__.py.                                                        *)
(*                                                                         *)
(* A URL is a sequence of tokens.  A token [c, d] is a piece of text c     *)
(* whose characters are percent-encoded d times (d = 0: literal text,      *)
(* d = 1: "%3F" for "?", d = 2: "%253F", ...).  The piece "R" is the text  *)
(* the pattern _REDIRECT_RE accepts ("https://search.brave.com/redirect"), *)
(* "a" and "b" are any other text ("https://example.com/a"), "url" is the  *)
(* parameter name, and "?", "=", "&", "#" are the URL delimiters.          *)
(*                                                                         *)
(* search() is followed through one invocation: the positions of the       *)
(* generator (pc) are its creation, the while test, the call of _req, the  *)
(* for loop, the yield, offset += 10 with sleep, and its two ends (return  *)
(* and exception).  The value yielded is recorded by its URL, which is the *)
(* value itself or the url field of the SearchResult (advanced).           *)
(***************************************************************************)
EXTENDS Integers, Sequences, FiniteSets, TLC

\* ------------------------------------------------------------------ bounds
MaxLen == 3         \* longest innermost URL, in tokens
MaxN == 2           \* largest small num_results
MaxPages == 2       \* the site has results on its first MaxPages pages only
MaxBlocks == 1      \* longest page other than a full page
MaxExtra == 1       \* next() calls made after the generator has finished

\* ------------------------------------------------------- program constants
PageStep == 10      \* offset += 10
ReqCount == 10      \* count=10 in the call of _req

\* ------------------------------------------------------------------- URLs
Tok(ch, depth) == [c |-> ch, d |-> depth]

Lit(ch) == Tok(ch, 0)

IsLit(t, ch) == t.c = ch /\ t.d = 0

\* urllib.parse.unquote: one level of percent-encoding is removed.
Unquote(s) ==
    [i \in 1..Len(s) |-> Tok(s[i].c, IF s[i].d > 0 THEN s[i].d - 1 ELSE 0)]

\* str.find of a delimiter: the first position holding it, 0 when there is none.
FirstAt(t, ch) ==
    IF \E i \in 1..Len(t) : IsLit(t[i], ch)
    THEN CHOOSE i \in 1..Len(t) :
             IsLit(t[i], ch) /\ \A j \in 1..(i - 1) : ~IsLit(t[j], ch)
    ELSE 0

\* (t \in {s} binds t to the value of s: operator arguments are evaluated
\* by name, and the string is to be evaluated once, not once per position.)
IndexOf(s, ch) == CHOOSE r \in {FirstAt(t, ch) : t \in {s}} : TRUE

\* _REDIRECT_RE.match(link): the pattern is matched at the start of the link.
MatchesRedirect(link) == Len(link) > 0 /\ IsLit(link[1], "R")

\* urlparse(link).query: the fragment is cut at the first "#", the query is
\* what follows the first "?" of the rest.
UrlQuery(link) ==
    LET h == IndexOf(link, "#")
        nofrag == IF h = 0 THEN link ELSE SubSeq(link, 1, h - 1)
        q == IndexOf(nofrag, "?")
    IN  IF q = 0 THEN <<>> ELSE SubSeq(nofrag, q + 1, Len(nofrag))

\* str.split(sep): the pieces between the occurrences of sep.
RECURSIVE SplitOn(_, _)
SplitOn(s, ch) ==
    LET i == IndexOf(s, ch)
    IN  IF i = 0 THEN <<s>>
        ELSE <<SubSeq(s, 1, i - 1)>> \o SplitOn(SubSeq(s, i + 1, Len(s)), ch)

\* parse_qs, one piece "name=value" split at its first "=" (position e): a
\* piece without "=" or with an empty value is dropped (keep_blank_values is
\* off); the name and the value are unquoted.
PairAt(nv, e) ==
    IF e = 0 \/ e = Len(nv) THEN <<>>
    ELSE <<[name |-> Unquote(SubSeq(nv, 1, e - 1)),
            value |-> Unquote(SubSeq(nv, e + 1, Len(nv)))]>>

PairOf(nv) == CHOOSE r \in {PairAt(t, IndexOf(t, "=")) : t \in {nv}} : TRUE

RECURSIVE PairsOf(_)
PairsOf(pieces) ==
    IF pieces = <<>> THEN <<>>
    ELSE PairOf(pieces[1]) \o PairsOf(Tail(pieces))

\* parse_qs(query): the (name, value) pairs in order.
ParseQs(query) ==
    CHOOSE r \in {IF q = <<>> THEN <<>> ELSE PairsOf(SplitOn(q, "&")) : q \in {query}} :
        TRUE

\* qs["url"]: the values of the parameter "url", in order.
UrlValues(qs) == SelectSeq(qs, LAMBDA p : p.name = <<Lit("url")>>)

\* _unwrap_brave_redirect without its pattern test.
UnwrapNoPatternTest(link) ==
    LET vals == UrlValues(ParseQs(UrlQuery(link)))
    IN  IF vals # <<>> THEN Unquote(vals[1].value) ELSE link

_unwrap_brave_redirect(link) ==
    IF ~MatchesRedirect(link) THEN link
    ELSE LET vals == UrlValues(ParseQs(UrlQuery(link)))
         IN  IF vals # <<>> THEN Unquote(vals[1].value) ELSE link

\* ---- the URLs the unwrapper is applied to
Chars == {"R", "a", "b", "?", "url", "=", "&", "#"}

RECURSIVE SeqsUpTo(_, _)
SeqsUpTo(S, n) ==
    IF n = 0 THEN {<<>>}
    ELSE LET shorter == SeqsUpTo(S, n - 1)
         IN  shorter \cup {Append(s, x) : s \in shorter, x \in S}

BaseLinks == SeqsUpTo({Lit(ch) : ch \in Chars}, MaxLen)

\* Percent-encoding of every character of s, once more.
Quote(s) == [i \in 1..Len(s) |-> Tok(s[i].c, s[i].d + 1)]

\* The redirect link the site writes for destination s.
Wrap(s) == <<Lit("R"), Lit("?"), Lit("url"), Lit("=")>> \o Quote(s)

\* A link to another site that carries s in a "url" parameter.
Foreign(s) == <<Lit("a"), Lit("?"), Lit("url"), Lit("=")>> \o Quote(s)

Links ==
    BaseLinks \cup {Wrap(s) : s \in BaseLinks}
              \cup {Wrap(Wrap(s)) : s \in BaseLinks}
              \cup {Foreign(s) : s \in BaseLinks}

VARIABLES link, res1, res2, upc   \* the unwrapper's input and results

uvars == <<link, res1, res2, upc>>

VARIABLES
    num_results, start_num, unique,   \* the arguments of search()
    fetched, seen, offset,            \* its locals
    snippets, idx,                    \* the page being walked, the for loop's place
    pc,                               \* where the generator stands
    out,                              \* the URLs yielded to the consumer, in order
    log,                              \* one entry per call of _req
    pauses,                           \* the calls of sleep()
    requests,                         \* the consumer's calls of next()
    extra                             \* those made after the generator finished

svars == <<num_results, start_num, unique, fetched, seen, offset, snippets, idx,
           pc, out, log, pauses, requests, extra>>

vars == <<svars, uvars>>

args == <<num_results, start_num, unique>>

UIdle == link = <<>> /\ res1 = <<>> /\ res2 = <<>> /\ upc = "idle"

UInit == link \in Links /\ res1 = <<>> /\ res2 = <<>> /\ upc = "input"

UnwrapOnce ==
    /\ upc = "input"
    /\ res1' = _unwrap_brave_redirect(link)
    /\ upc' = "once"
    /\ UNCHANGED <<link, res2>>
    /\ UNCHANGED svars

UnwrapTwice ==
    /\ upc = "once"
    /\ res2' = _unwrap_brave_redirect(res1)
    /\ upc' = "twice"
    /\ UNCHANGED <<link, res1>>
    /\ UNCHANGED svars

\* ---------------------------------------------------------------- the site
\* A result block (div.snippet): whether it holds an anchor, and its href.
NoLink == [has_link |-> FALSE, href |-> <<>>]

Linked(h) == [has_link |-> TRUE, href |-> h]

LinkA == <<Lit("a")>>

LinkB == <<Lit("b")>>

\* The hrefs the site serves: two destinations, one of them also behind the
\* site's redirect.
Hrefs == {LinkA, Wrap(LinkA), LinkB}

Snips == {NoLink} \cup {Linked(h) : h \in Hrefs}

\* url = _unwrap_brave_redirect(raw_link), tabulated over the hrefs served.
Resolved == [h \in Hrefs |-> _unwrap_brave_redirect(h)]

\* A page of ReqCount result blocks, each with a link.
FullPage(h1, h2) == [i \in 1..ReqCount |-> Linked(IF i % 2 = 1 THEN h1 ELSE h2)]

\* The pages a fetch may return: every page of at most MaxBlocks blocks (the
\* page without result blocks among them) and two full pages.
Pages ==
    SeqsUpTo(Snips, MaxBlocks)
        \cup {FullPage(LinkA, LinkA), FullPage(Wrap(LinkA), LinkB)}

\* Beyond SiteEnd the site returns pages without result blocks.
SiteEnd == PageStep * MaxPages

PagesAt(off) == IF off < SiteEnd THEN Pages ELSE {<<>>}

NumLinks(page) == Cardinality({i \in 1..Len(page) : page[i].has_link})

\* ------------------------------------------------------------------ search
Range(s) == {s[i] : i \in 1..Len(s)}

SIdle ==
    /\ num_results = 0 /\ start_num = 0 /\ unique = FALSE
    /\ fetched = 0 /\ seen = {} /\ offset = 0
    /\ snippets = <<>> /\ idx = 0
    /\ pc = "idle"
    /\ out = <<>> /\ log = <<>> /\ pauses = 0 /\ requests = 0 /\ extra = 0

\* The num_results tried: negative, zero, small, one full page, and more.
NumResults == (-1..MaxN) \cup {ReqCount, ReqCount + MaxN}

\* search(term, num_results, start_num=..., unique=...): the generator object
\* is made, none of its body has run.
SInit ==
    /\ num_results \in NumResults
    /\ start_num \in {0, 5}
    /\ unique \in BOOLEAN
    /\ fetched = 0 /\ seen = {} /\ offset = 0
    /\ snippets = <<>> /\ idx = 0
    /\ pc = "created"
    /\ out = <<>> /\ log = <<>> /\ pauses = 0 /\ requests = 0 /\ extra = 0

\* while fetched < num_results
LoopCondOffByOne == fetched <= num_results

LoopCond == fetched < num_results

\* if fetched >= num_results: break
StopAfterYieldLate == fetched > num_results

StopAfterYield == fetched >= num_results

\* if unique and url in seen
IsDupRaw(snip) == unique /\ snip.href \in seen

IsDup(snip) == unique /\ Resolved[snip.href] \in seen

\* if not snippets: break
NoSnippetsNever(page) == FALSE

NoSnippets(page) == page = <<>>

\* offset += 10
NextOffsetByOne == offset + 1

NextOffset == offset + PageStep

\* sleep(sleep_interval), once per page walked
PausedUnlessLast == IF fetched < num_results THEN pauses + 1 ELSE pauses

Paused == pauses + 1

\* Where the generator stands after a yield: suspended until the next next().
AfterYieldRunsOn == "resumed"

AfterYield == "yielded"

\* The consumer calls next() on the suspended generator.  The first call runs
\* the body from its start (fetched = 0, seen = set(), offset = start_num);
\* a later one resumes after the yield.
Request ==
    /\ pc \in {"created", "yielded"}
    /\ requests' = requests + 1
    /\ IF pc = "created"
       THEN /\ offset' = start_num
            /\ pc' = "while"
       ELSE /\ pc' = "resumed"
            /\ UNCHANGED offset
    /\ UNCHANGED <<args, fetched, seen, snippets, idx, out, log, pauses, extra>>
    /\ UNCHANGED uvars

\* After the yield: if fetched >= num_results: break; else the next snippet.
Resume ==
    /\ pc = "resumed"
    /\ IF StopAfterYield
       THEN pc' = "advance" /\ UNCHANGED idx
       ELSE pc' = "for" /\ idx' = idx + 1
    /\ UNCHANGED <<args, fetched, seen, offset, snippets, out, log, pauses,
                   requests, extra>>
    /\ UNCHANGED uvars

\* The test of the while loop; when it fails the generator returns.
LoopTest ==
    /\ pc = "while"
    /\ pc' = IF LoopCond THEN "req" ELSE "done"
    /\ UNCHANGED <<args, fetched, seen, offset, snippets, idx, out, log, pauses,
                   requests, extra>>
    /\ UNCHANGED uvars

LogEntry(ok, page) ==
    [offset |-> offset, count |-> ReqCount, ok |-> ok,
     blocks |-> Len(page), links |-> NumLinks(page),
     requests |-> requests, yielded |-> Len(out), pauses |-> pauses]

\* Where a failed fetch leaves the generator: the exception propagates.
OnFailureRetry == "req"

OnFailure == "error"

\* _req raises (transport error or raise_for_status): the exception leaves
\* the generator, which is finished.
FetchFail ==
    /\ pc = "req"
    /\ log' = Append(log, LogEntry(FALSE, <<>>))
    /\ pc' = OnFailure
    /\ UNCHANGED <<args, fetched, seen, offset, snippets, idx, out, pauses,
                   requests, extra>>
    /\ UNCHANGED uvars

\* _req returns a page; snippets = soup.select("div.snippet"); without
\* snippets the loop is left.
FetchOk ==
    /\ pc = "req"
    /\ \E page \in PagesAt(offset) :
        /\ log' = Append(log, LogEntry(TRUE, page))
        /\ snippets' = page
        /\ IF NoSnippets(page)
           THEN pc' = "done" /\ UNCHANGED idx
           ELSE pc' = "for" /\ idx' = 1
    /\ UNCHANGED <<args, fetched, seen, offset, out, pauses, requests, extra>>
    /\ UNCHANGED uvars

\* One turn of "for snip in snippets".
ForStep ==
    /\ pc = "for"
    /\ IF idx > Len(snippets)
       THEN /\ pc' = "advance"
            /\ UNCHANGED <<idx, seen, fetched, out>>
       ELSE LET snip == snippets[idx]
                url == Resolved[snip.href]
            IN  IF ~snip.has_link \/ IsDup(snip)
                THEN /\ idx' = idx + 1
                     /\ UNCHANGED <<pc, seen, fetched, out>>
                ELSE /\ seen' = seen \cup {url}
                     /\ fetched' = fetched + 1
                     /\ out' = Append(out, url)
                     /\ pc' = AfterYield
                     /\ UNCHANGED idx
    /\ UNCHANGED <<args, offset, snippets, log, pauses, requests, extra>>
    /\ UNCHANGED uvars

\* offset += 10; sleep(sleep_interval)
Advance ==
    /\ pc = "advance"
    /\ offset' = NextOffset
    /\ pauses' = Paused
    /\ pc' = "while"
    /\ UNCHANGED <<args, fetched, seen, snippets, idx, out, log, requests, extra>>
    /\ UNCHANGED uvars

\* next() on the finished generator: StopIteration, nothing runs.
Finished ==
    /\ pc \in {"done", "error"}
    /\ extra < MaxExtra
    /\ extra' = extra + 1
    /\ requests' = requests + 1
    /\ UNCHANGED <<args, fetched, seen, offset, snippets, idx, pc, out, log, pauses>>
    /\ UNCHANGED uvars

Next ==
    \/ Request
    \/ Resume
    \/ LoopTest
    \/ FetchFail
    \/ FetchOk
    \/ ForStep
    \/ Advance
    \/ Finished

Init == SInit /\ UIdle

Spec == Init /\ [][Next]_vars

\* The consumer keeps calling next() and every call of the single thread
\* returns: a step that can be taken is taken.
FairSpec == Spec /\ WF_vars(Next)

UInitAll == UInit /\ SIdle

UNext == UnwrapOnce \/ UnwrapTwice

SpecUnwrap == UInitAll /\ [][UNext]_vars

\* ------------------------------------------------------------ the claims
Suspended == pc \in {"created", "yielded", "done", "error"}

Ended == pc \in {"done", "error"}

\* Every page fetched so far came back with ReqCount result blocks, each
\* with a link.
AllFull ==
    \A k \in 1..Len(log) :
        log[k].ok /\ log[k].blocks = ReqCount /\ log[k].links = ReqCount

OffsetsInOrder ==
    \A k \in 1..Len(log) : log[k].offset = start_num + PageStep * (k - 1)

NoRepeat(s) == \A i, j \in 1..Len(s) : s[i] = s[j] => i = j

RECURSIVE LinksBefore(_)
LinksBefore(k) == IF k <= 1 THEN 0 ELSE LinksBefore(k - 1) + log[k - 1].links

LastEmpty == Len(log) > 0 /\ log[Len(log)].ok /\ log[Len(log)].blocks = 0

NonEmptyFetches ==
    Cardinality({k \in 1..Len(log) : log[k].ok /\ log[k].blocks > 0})

OkFetches == Cardinality({k \in 1..Len(log) : log[k].ok})

\* C1: with unique off, num_results = N >= 1 and every fetched page holding 10
\* linked result blocks, the fetches are made at start_num, start_num + 10, ...
\* in this order, each while fewer than N values have been yielded (none after
\* the N-th value), the k-th after exactly 10 (k - 1) values; the finished
\* search has yielded exactly N values with ceil(N / 10) fetches.
C1_FullPages ==
    (~unique /\ num_results >= 1 /\ AllFull) =>
        /\ OffsetsInOrder
        /\ \A k \in 1..Len(log) :
              /\ log[k].yielded = ReqCount * (k - 1)
              /\ log[k].yielded < num_results
        /\ Len(out) <= num_results
        /\ Len(log) <= (num_results + 9) \div 10
        /\ pc = "done" =>
              /\ Len(out) = num_results
              /\ Len(log) = (num_results + 9) \div 10

C1_Witness ==
    /\ pc = "done" /\ ~unique /\ AllFull
    /\ num_results > ReqCount
    /\ Len(out) = num_results
    /\ Len(log) = 2
    /\ extra > 0

\* C2: with unique on, no URL is yielded twice, and fetched counts exactly the
\* distinct URLs yielded (the ones recorded in seen): a skipped duplicate
\* does not count.
C2_Unique ==
    unique =>
        /\ NoRepeat(out)
        /\ fetched = Cardinality(Range(out))
        /\ seen = Range(out)

\* A second page whose only link resolves to the URL already yielded from
\* the first was walked without a yield.
C2_Witness ==
    /\ unique /\ pc = "done"
    /\ Len(log) = 3
    /\ log[1].links = 1 /\ log[2].links = 1 /\ log[3].links = 0
    /\ Len(out) = 1

\* C3: a failed fetch is the last fetch (it is not retried, none follows it),
\* it ends the generator, no value is yielded after it, and every value of the
\* earlier pages was yielded before it was made.
C3_FetchFailure ==
    \A k \in 1..Len(log) :
        ~log[k].ok =>
            /\ k = Len(log)
            /\ pc = "error"
            /\ Len(out) = log[k].yielded
            /\ \A j \in 1..(k - 1) : log[j].ok
            /\ ~unique => Len(out) = LinksBefore(k)

\* Ten values of page 1, then the failure on page 2, then one more next().
C3_Witness ==
    /\ pc = "error" /\ extra > 0
    /\ Len(log) = 2 /\ log[1].links = ReqCount /\ ~log[2].ok
    /\ Len(out) = ReqCount

\* C4: every fetch is made while a call of next() is waiting for a value the
\* consumer has not been given yet (requests = values yielded + 1), so none
\* before the first call and none while the generator is suspended; the
\* generator runs only inside such a call.
C4_PullDriven ==
    /\ \A k \in 1..Len(log) : log[k].requests = log[k].yielded + 1
    /\ requests = 0 => log = <<>>
    /\ ~Suspended => requests = Len(out) + 1
    /\ pc = "yielded" => requests = Len(out)

C4_Witness ==
    /\ pc = "yielded"
    /\ Len(log) = 2 /\ log[2].yielded > 0 /\ log[2].offset = start_num + PageStep
    /\ Len(out) > log[2].yielded

\* C5: a fetched page without result blocks is the last fetch and ends the
\* generator with no further value; when it is the first page the sequence
\* is empty after exactly one fetch.
C5_EmptyPage ==
    \A k \in 1..Len(log) :
        (log[k].ok /\ log[k].blocks = 0) =>
            /\ k = Len(log)
            /\ pc = "done"
            /\ Len(out) = log[k].yielded
            /\ k = 1 => out = <<>>

C5_Witness ==
    /\ pc = "done" /\ extra > 0
    /\ Len(log) = 1 /\ log[1].ok /\ log[1].blocks = 0
    /\ out = <<>>

\* C6 as stated: the finished search has fetched = num_results or ended on a
\* page without result blocks.
C6_AsStated == pc = "done" => (fetched = num_results \/ LastEmpty)

\* C6 as amended: the search ends; when it returns, the last page had no
\* result blocks or fetched >= num_results, with fetched = num_results when
\* num_results >= 0 and nothing fetched or yielded when num_results <= 0.
C6_Terminates ==
    /\ <>Ended
    /\ [](pc = "done" =>
            \/ LastEmpty
            \/ /\ fetched >= num_results
               /\ num_results >= 0 => fetched = num_results
               /\ num_results <= 0 => (log = <<>> /\ fetched = 0))

C6_Witness == pc = "done" /\ num_results < 0 /\ log = <<>> /\ extra > 0

\* C8: a fetched page none of whose result blocks has a link is the last
\* fetch, and no value follows it.
C8_ZeroHitsStops ==
    \A k \in 1..Len(log) :
        (log[k].ok /\ log[k].links = 0) =>
            /\ k = Len(log)
            /\ Len(out) = log[k].yielded

\* C9 as stated: in the finished search the pauses are as many as the
\* successful fetches.
C9_AsStated == Ended => pauses = OkFetches

\* C9 as amended: every fetched page with a result block is followed by
\* offset += 10 and one pause, the last such page too; a page without result
\* blocks is followed by neither.  The k-th fetch comes after k - 1 pauses.
C9_Pauses ==
    /\ \A k \in 1..Len(log) : log[k].pauses = k - 1
    /\ Ended =>
          /\ pauses = NonEmptyFetches
          /\ offset = start_num + PageStep * NonEmptyFetches

C9_Witness ==
    /\ pc = "done" /\ Len(log) = 2 /\ LastEmpty
    /\ pauses = 1 /\ OkFetches = 2

\* C10: with num_results >= 0, fetched is the number of values yielded and
\* at most num_results, the k-th fetch (from 0) is made at start_num + 10 k,
\* and every fetch asks for 10 results.
C10_Counters ==
    num_results >= 0 =>
        /\ fetched = Len(out)
        /\ fetched <= num_results
        /\ OffsetsInOrder
        /\ \A k \in 1..Len(log) : log[k].count = 10

\* A page whose block has no link and one whose block has: the second fetch
\* is still made at start_num + 10.
C10_Witness ==
    /\ num_results > 0 /\ fetched = num_results
    /\ Len(log) = 2 /\ log[1].links = 0 /\ log[1].blocks > 0
    /\ start_num > 0

\* C7 as stated: unwrapping twice gives what unwrapping once gives.
C7_AsStated == upc = "twice" => res2 = res1

\* C7 as amended: a URL that does not match the redirect pattern is returned
\* unchanged, so unwrapping twice gives what unwrapping once gives whenever
\* the result of the first does not match the pattern.
C7_NonRedirectFixed ==
    /\ (upc \in {"once", "twice"} /\ ~MatchesRedirect(link)) => res1 = link
    /\ (upc = "twice" /\ ~MatchesRedirect(res1)) => res2 = res1

C7_Witness ==
    /\ upc = "twice"
    /\ MatchesRedirect(link) /\ res1 # link /\ ~MatchesRedirect(res1)
    /\ res2 = res1

====
